---- MODULE Spec2Model ----
\* HistoryBuffer<T, N> of heapless (src/src/histbuf.rs): a fixed-capacity
\* overwrite-on-full ring of MaybeUninit<T> cells, a write cursor and a
\* "filled" flag.  Every element object stored in a cell carries an identity
\* (id) so that construction and finalization (drop_in_place) can be counted.
EXTENDS Integers, Sequences, FiniteSets

\* ------------------------------------------------------------------ bounds
MaxN == 3          \* capacities 0 .. MaxN are explored
MaxVal == 2        \* element values 1 .. MaxVal
MaxItems == 2      \* longest slice / iterator handed to a bulk write
MaxIds == 5        \* element objects constructed over one run
USIZE_BITS == 16   \* width of usize on the modelled target

Values == 1 .. MaxVal

RECURSIVE SeqsUpTo(_)
SeqsUpTo(n) ==
    IF n = 0 THEN {<<>>}
    ELSE LET shorter == SeqsUpTo(n - 1)
         IN shorter \cup {Append(s, v) : s \in {q \in shorter : Len(q) = n - 1}, v \in Values}

Slices == SeqsUpTo(MaxItems)

VARIABLES
    N,                \* const generic N: the capacity
    overflow_checks,  \* build profile: arithmetic overflow panics (debug) or wraps (release)
    data,             \* data: [MaybeUninit<T>; N], indexed 0 .. N-1
    write_at,         \* write_at: usize
    filled,           \* filled: bool
    status,           \* "alive", "panicked" (a call unwound) or "dropped" (Drop::drop ran)
    next_id,          \* identity given to the next element object constructed
    dropped,          \* ids handed to drop_in_place, in order
    ub,               \* TRUE once drop_in_place ran on a cell holding no live element
    hist,             \* element objects written since the last new()/clear()/new_with()/clear_with()
    from_empty,       \* TRUE when that last reset was new() or clear()
    last              \* the last call: its name, its arguments and the state it was made in

vars == <<N, overflow_checks, data, write_at, filled, status, next_id, dropped, ub,
          hist, from_empty, last>>

\* ------------------------------------------------------------------ cells
\* MaybeUninit::uninit(): a cell holding no element
INIT == [live |-> FALSE, id |-> 0, val |-> 0]

\* MaybeUninit::new(t): a cell holding the element object id with value t
MaybeUninitNew(id, t) == [live |-> TRUE, id |-> id, val |-> t]

\* item.clone() / Iterator::cloned(): a new object of equal value
Clone(t) == t

Cloned(items) == [i \in DOMAIN items |-> Clone(items[i])]

\* the buffer as one value: the three fields plus the bookkeeping of objects
Self ==
    [data |-> data, write_at |-> write_at, filled |-> filled,
     next_id |-> next_id, dropped |-> dropped, ub |-> ub,
     panicked |-> (status = "panicked"), hist |-> hist, from_empty |-> from_empty]

\* HistoryBuffer::new()
New(ids, dr) ==
    [data |-> [i \in 0 .. N - 1 |-> INIT], write_at |-> 0, filled |-> FALSE,
     next_id |-> ids, dropped |-> dr, ub |-> FALSE,
     panicked |-> FALSE, hist |-> <<>>, from_empty |-> TRUE]

\* new_with that fills the cells and leaves filled unset
new_with_not_filled(ids, dr, t) ==
    [data |-> [i \in 0 .. N - 1 |-> MaybeUninitNew(ids + i, t)], write_at |-> 0,
     filled |-> FALSE, next_id |-> ids + N, dropped |-> dr, ub |-> FALSE,
     panicked |-> FALSE, hist |-> <<>>, from_empty |-> FALSE]

\* HistoryBuffer::new_with(t): N copies of t, one object per cell
NewWith(ids, dr, t) ==
    [data |-> [i \in 0 .. N - 1 |-> MaybeUninitNew(ids + i, t)], write_at |-> 0,
     filled |-> TRUE, next_id |-> ids + N, dropped |-> dr, ub |-> FALSE,
     panicked |-> FALSE, hist |-> <<>>, from_empty |-> FALSE]

\* ------------------------------------------------------------------ reads
capacity == N

\* len() that reports the cursor even once the buffer has wrapped
len_cursor(s) == s.write_at

len(s) == IF s.filled THEN N ELSE s.write_at

\* the cell at a raw offset; beyond the array there is no element
CellAt(s, i) == IF i \in DOMAIN s.data THEN s.data[i] ELSE INIT

\* usize subtraction: panics under overflow checks, wraps otherwise
SubUsize(a, b) ==
    IF a >= b THEN [ok |-> TRUE, v |-> a - b]
    ELSE IF overflow_checks THEN [ok |-> FALSE, v |-> 0]
    ELSE [ok |-> TRUE, v |-> (a - b + 2 ^ USIZE_BITS) % (2 ^ USIZE_BITS)]

\* self.data[i]: bounds-checked indexing
Index(s, i) ==
    IF i < N THEN [tag |-> "Some", cell |-> s.data[i]]
    ELSE [tag |-> "Panic", cell |-> INIT]

\* recent() that reads slot 0, where the cursor stands, after a wrap
recent_at_cursor(s) ==
    IF s.write_at = 0
    THEN IF s.filled THEN Index(s, 0) ELSE [tag |-> "None", cell |-> INIT]
    ELSE LET i == SubUsize(s.write_at, 1)
         IN IF i.ok THEN Index(s, i.v) ELSE [tag |-> "Panic", cell |-> INIT]

\* recent() that takes a cursor at 0 to mean an empty buffer
recent_none_at_zero(s) ==
    IF s.write_at = 0
    THEN [tag |-> "None", cell |-> INIT]
    ELSE LET i == SubUsize(s.write_at, 1)
         IN IF i.ok THEN Index(s, i.v) ELSE [tag |-> "Panic", cell |-> INIT]

recent(s) ==
    IF s.write_at = 0
    THEN IF s.filled
         THEN LET i == SubUsize(capacity, 1)
              IN IF i.ok THEN Index(s, i.v) ELSE [tag |-> "Panic", cell |-> INIT]
         ELSE [tag |-> "None", cell |-> INIT]
    ELSE LET i == SubUsize(s.write_at, 1)
         IN IF i.ok THEN Index(s, i.v) ELSE [tag |-> "Panic", cell |-> INIT]

\* as_slice() over the whole backing array
as_slice_whole(s) == [i \in 1 .. N |-> CellAt(s, i - 1)]

\* slice::from_raw_parts(data, len()): the first len() cells, in physical order
as_slice(s) == [i \in 1 .. len(s) |-> CellAt(s, i - 1)]

\* ------------------------------------------------------------------ writes
\* ptr::drop_in_place(self.data[i].as_mut_ptr()): finalizes the element in cell i
DropInPlace(s, i) ==
    LET c == CellAt(s, i)
    IN [s EXCEPT !.dropped = Append(@, c.id),
                 !.ub = @ \/ ~c.live,
                 !.data = [j \in DOMAIN s.data |->
                              IF j = i THEN [c EXCEPT !.live = FALSE] ELSE s.data[j]]]

\* write that wraps the cursor without setting filled
write_forgets_filled(s, t) ==
    IF s.panicked THEN s
    ELSE IF ~(s.write_at < N) THEN [s EXCEPT !.panicked = TRUE]
    ELSE LET s1 == IF s.filled THEN DropInPlace(s, s.write_at) ELSE s
             c  == MaybeUninitNew(s1.next_id, t)
             s2 == [s1 EXCEPT !.data[s.write_at] = c,
                              !.next_id = @ + 1,
                              !.hist = Append(@, [id |-> c.id, val |-> t])]
             w  == s2.write_at + 1
         IN IF w = capacity
            THEN [s2 EXCEPT !.write_at = 0]
            ELSE [s2 EXCEPT !.write_at = w]

\* write that finalizes the target cell whether or not the buffer is filled
write_drops_always(s, t) ==
    IF s.panicked THEN s
    ELSE IF ~(s.write_at < N) THEN [s EXCEPT !.panicked = TRUE]
    ELSE LET s1 == DropInPlace(s, s.write_at)
             c  == MaybeUninitNew(s1.next_id, t)
             s2 == [s1 EXCEPT !.data[s.write_at] = c,
                              !.next_id = @ + 1,
                              !.hist = Append(@, [id |-> c.id, val |-> t])]
             w  == s2.write_at + 1
         IN IF w = capacity
            THEN [s2 EXCEPT !.write_at = 0, !.filled = TRUE]
            ELSE [s2 EXCEPT !.write_at = w]

\* write that advances the cursor before it stores
write_pre_increment(s, t) ==
    IF s.panicked THEN s
    ELSE IF ~(s.write_at < N) THEN [s EXCEPT !.panicked = TRUE]
    ELSE LET w  == IF s.write_at + 1 = capacity THEN 0 ELSE s.write_at + 1
             s1 == IF s.filled THEN DropInPlace(s, w) ELSE s
             c  == MaybeUninitNew(s1.next_id, t)
             s2 == [s1 EXCEPT !.data[w] = c,
                              !.next_id = @ + 1,
                              !.hist = Append(@, [id |-> c.id, val |-> t])]
         IN IF w = 0
            THEN [s2 EXCEPT !.write_at = 0, !.filled = TRUE]
            ELSE [s2 EXCEPT !.write_at = w]

\* write that wraps the cursor only once it is past the capacity
write_wraps_late(s, t) ==
    IF s.panicked THEN s
    ELSE IF ~(s.write_at < N) THEN [s EXCEPT !.panicked = TRUE]
    ELSE LET s1 == IF s.filled THEN DropInPlace(s, s.write_at) ELSE s
             c  == MaybeUninitNew(s1.next_id, t)
             s2 == [s1 EXCEPT !.data[s.write_at] = c,
                              !.next_id = @ + 1,
                              !.hist = Append(@, [id |-> c.id, val |-> t])]
             w  == s2.write_at + 1
         IN IF w > capacity
            THEN [s2 EXCEPT !.write_at = 0, !.filled = TRUE]
            ELSE [s2 EXCEPT !.write_at = w]

\* write that sets filled on every call
write_fills_early(s, t) ==
    IF s.panicked THEN s
    ELSE IF ~(s.write_at < N) THEN [s EXCEPT !.panicked = TRUE]
    ELSE LET s1 == IF s.filled THEN DropInPlace(s, s.write_at) ELSE s
             c  == MaybeUninitNew(s1.next_id, t)
             s2 == [s1 EXCEPT !.data[s.write_at] = c,
                              !.next_id = @ + 1,
                              !.hist = Append(@, [id |-> c.id, val |-> t])]
             w  == s2.write_at + 1
         IN IF w = capacity
            THEN [s2 EXCEPT !.write_at = 0, !.filled = TRUE]
            ELSE [s2 EXCEPT !.write_at = w, !.filled = TRUE]

write(s, t) ==
    IF s.panicked THEN s
    ELSE IF ~(s.write_at < N) THEN [s EXCEPT !.panicked = TRUE]
    ELSE LET s1 == IF s.filled THEN DropInPlace(s, s.write_at) ELSE s
             c  == MaybeUninitNew(s1.next_id, t)
             s2 == [s1 EXCEPT !.data[s.write_at] = c,
                              !.next_id = @ + 1,
                              !.hist = Append(@, [id |-> c.id, val |-> t])]
             w  == s2.write_at + 1
         IN IF w = capacity
            THEN [s2 EXCEPT !.write_at = 0, !.filled = TRUE]
            ELSE [s2 EXCEPT !.write_at = w]

\* extend_from_slice that walks the slice from its end
RECURSIVE extend_from_slice_rev(_, _)
extend_from_slice_rev(s, other) ==
    IF other = <<>> THEN s
    ELSE extend_from_slice_rev(write(s, Clone(other[Len(other)])),
                               SubSeq(other, 1, Len(other) - 1))

\* extend_from_slice whose loop stops one element short
RECURSIVE extend_from_slice_skips_last(_, _)
extend_from_slice_skips_last(s, other) ==
    IF Len(other) <= 1 THEN s
    ELSE extend_from_slice_skips_last(write(s, Clone(Head(other))), Tail(other))

\* for item in other { self.write(item.clone()) }
RECURSIVE extend_from_slice(_, _)
extend_from_slice(s, other) ==
    IF other = <<>> THEN s
    ELSE extend_from_slice(write(s, Clone(Head(other))), Tail(other))

\* Extend<T>: for item in iter.into_iter() { self.write(item) }
RECURSIVE extend(_, _)
extend(s, iter) ==
    IF iter = <<>> THEN s
    ELSE extend(write(s, Head(iter)), Tail(iter))

\* Extend<&T>: self.extend(iter.into_iter().cloned())
extend_ref(s, iter) == extend(s, Cloned(iter))

\* Drop::drop: drop_in_place of the slice of the first len() cells
RECURSIVE DropSlice(_, _, _)
DropSlice(s, i, n) ==
    IF i >= n THEN s ELSE DropSlice(DropInPlace(s, i), i + 1, n)

\* drop that finalizes the whole array, not the first len() cells
drop_whole_array(s) == DropSlice(s, 0, N)

drop(s) == DropSlice(s, 0, len(s))

\* clear that resets the cursor and the flag and leaves the cells as they are
clear_keeps_cells(s) == [s EXCEPT !.write_at = 0, !.filled = FALSE, !.hist = <<>>, !.from_empty = TRUE]

\* clear that resets the flag and the cells and leaves the cursor where it was
clear_keeps_cursor(s) ==
    LET old == drop(s)
    IN [New(old.next_id, old.dropped) EXCEPT !.ub = old.ub, !.write_at = s.write_at]

\* T::default(), the value clear's doc comment names
T_default == 0

\* clear as its doc comment words it: every cell refilled with the default value
clear_with_default(s) ==
    LET old == drop(s)
    IN [NewWith(old.next_id, old.dropped, T_default) EXCEPT !.ub = old.ub]

\* *self = Self::new(): the old value is dropped, the new one moved in
clear(s) ==
    LET old == drop(s)
    IN [New(old.next_id, old.dropped) EXCEPT !.ub = old.ub]

\* *self = Self::new_with(t)
clear_with(s, t) ==
    LET old == drop(s)
    IN [NewWith(old.next_id, old.dropped, t) EXCEPT !.ub = old.ub]

\* ------------------------------------------------------------------ the state machine
\* the state s leaves behind when the call op(items) made in Self returns or unwinds
Install(s, op, items, st) ==
    /\ data' = s.data
    /\ write_at' = s.write_at
    /\ filled' = s.filled
    /\ next_id' = s.next_id
    /\ dropped' = s.dropped
    /\ ub' = s.ub
    /\ hist' = s.hist
    /\ from_empty' = s.from_empty
    /\ status' = IF s.panicked THEN "panicked" ELSE st
    /\ last' = [op |-> op, items |-> items, pre |-> Self]
    /\ UNCHANGED <<N, overflow_checks>>

\* let x: HistoryBuffer<T, N> = HistoryBuffer::new() or HistoryBuffer::new_with(t)
InitWith(s, op, items) ==
    /\ data = s.data
    /\ write_at = s.write_at
    /\ filled = s.filled
    /\ next_id = s.next_id
    /\ dropped = s.dropped
    /\ ub = s.ub
    /\ hist = s.hist
    /\ from_empty = s.from_empty
    /\ status = "alive"
    /\ last = [op |-> op, items |-> items, pre |-> s]

Init ==
    /\ N \in 0 .. MaxN
    /\ overflow_checks \in BOOLEAN
    /\ \/ InitWith(New(1, <<>>), "new", <<>>)
       \/ \E t \in Values : InitWith(NewWith(1, <<>>, t), "new_with", <<t>>)

\* room for k more element objects
Room(k) == next_id + k <= MaxIds + 1

DoWrite ==
    /\ status = "alive"
    /\ Room(1)
    /\ \E t \in Values : Install(write(Self, t), "write", <<t>>, "alive")

DoExtendFromSlice ==
    /\ status = "alive"
    /\ \E other \in Slices :
          /\ Room(Len(other))
          /\ Install(extend_from_slice(Self, other), "extend_from_slice", other, "alive")

DoExtend ==
    /\ status = "alive"
    /\ \E iter \in Slices :
          /\ Room(Len(iter))
          /\ Install(extend(Self, iter), "extend", iter, "alive")

DoExtendRef ==
    /\ status = "alive"
    /\ \E iter \in Slices :
          /\ Room(Len(iter))
          /\ Install(extend_ref(Self, iter), "extend_ref", iter, "alive")

DoClear ==
    /\ status = "alive"
    /\ Install(clear(Self), "clear", <<>>, "alive")

DoClearWith ==
    /\ status = "alive"
    /\ Room(N)
    /\ \E t \in Values : Install(clear_with(Self, t), "clear_with", <<t>>, "alive")

\* x.recent(): a read; it unwinds when the index computation or the indexing panics
DoRecent ==
    /\ status = "alive"
    /\ Install([Self EXCEPT !.panicked = (recent(Self).tag = "Panic")], "recent", <<>>, "alive")

\* x.len(), x.capacity(), x.as_slice(): reads that cannot unwind
DoLen ==
    /\ status = "alive"
    /\ Install(Self, "len", <<>>, "alive")

DoAsSlice ==
    /\ status = "alive"
    /\ Install(Self, "as_slice", <<>>, "alive")

\* the buffer goes out of scope: Drop::drop
DoDrop ==
    /\ status = "alive"
    /\ Install(drop(Self), "drop", <<>>, "dropped")

Next ==
    \/ DoWrite
    \/ DoExtendFromSlice
    \/ DoExtend
    \/ DoExtendRef
    \/ DoClear
    \/ DoClearWith
    \/ DoRecent
    \/ DoLen
    \/ DoAsSlice
    \/ DoDrop

Spec == Init /\ [][Next]_vars

\* ------------------------------------------------------------------ vocabulary of the claims
Cells(s) == {s.data[i] : i \in DOMAIN s.data}
LiveIds(s) == {c.id : c \in {d \in Cells(s) : d.live}}
Range(q) == {q[i] : i \in DOMAIN q}
Created == 1 .. next_id - 1
NoRepeat(q) == \A i, j \in DOMAIN q : i # j => q[i] # q[j]
Min(a, b) == IF a <= b THEN a ELSE b
Count(q, v) == Cardinality({i \in DOMAIN q : q[i] = v})
ValuesOf(q) == [i \in DOMAIN q |-> q[i].val]
IdsOf(q) == [i \in DOMAIN q |-> q[i].id]
LastN(q, n) == SubSeq(q, Len(q) - Min(Len(q), n) + 1, Len(q))
BulkOps == {"extend_from_slice", "extend", "extend_ref"}
ReadOps == {"recent", "len", "as_slice"}

\* C1: for N > 0, while the buffer exists: not filled => exactly the cells
\* [0, write_at) are live and [write_at, N) are dead; filled => all N cells are
\* live; so every cell as_slice() exposes is live, and no dead cell was ever
\* read or finalized.
C1_Liveness ==
    (N > 0 /\ status = "alive") =>
        /\ ~filled => \A i \in 0 .. N - 1 : data[i].live <=> (i < write_at)
        /\ filled => \A i \in 0 .. N - 1 : data[i].live
        /\ \A k \in DOMAIN as_slice(Self) : as_slice(Self)[k].live
        /\ ~ub

\* a partially refilled buffer after an earlier lap was cleared away
C1_Witness ==
    /\ N >= 2 /\ status = "alive" /\ ~filled /\ write_at = 1
    /\ last.op = "write" /\ Len(dropped) >= N

\* C2: for N > 0, every element object ever stored is finalized exactly once
\* by the time the buffer is dropped: never twice, never leaked, and no dead
\* cell is finalized.  Finalization happens only in write (of the live cell
\* it overwrites), in clear/clear_with and in drop, and drop finalizes exactly
\* the len() cells from physical index 0.
C2_FinalizedOnce ==
    N > 0 =>
        /\ ~ub
        /\ NoRepeat(dropped)
        /\ Range(dropped) \subseteq Created
        /\ status = "alive" =>
              /\ Range(dropped) \cap LiveIds(Self) = {}
              /\ Range(dropped) \cup LiveIds(Self) = Created
        /\ status = "dropped" =>
              /\ Range(dropped) = Created
              /\ Len(dropped) = Cardinality(Created)
        /\ last.op \in ReadOps => dropped = last.pre.dropped
        /\ last.op = "write" =>
              \/ dropped = last.pre.dropped
              \/ /\ last.pre.data[last.pre.write_at].live
                 /\ dropped = Append(last.pre.dropped, last.pre.data[last.pre.write_at].id)
        /\ last.op = "drop" =>
              dropped = last.pre.dropped \o IdsOf(as_slice(last.pre))

\* dropped after a lap and a half: elements were finalized by write and by drop
C2_Witness ==
    /\ N >= 2 /\ status = "dropped" /\ last.pre.filled /\ last.pre.write_at > 0
    /\ Len(last.pre.hist) > N /\ Len(dropped) = next_id - 1

\* write on HistoryBuffer<T, 0> unwinds at self.data[self.write_at]
C3_Panics ==
    N = 0 /\ last.op = "write" /\ status = "panicked" /\ last.pre.write_at = 0

\* C3: on a zero-capacity buffer write(value) is a safe no-op: it does not
\* panic and leaves write_at = 0, filled and len() = 0 unchanged.
C3_ZeroCapacityWriteNoOp ==
    (N = 0 /\ last.op = "write") =>
        /\ status = "alive"
        /\ write_at = 0
        /\ filled = last.pre.filled
        /\ len(Self) = 0

\* recent() on HistoryBuffer::<T, 0>::new_with(v) unwinds at self.data[self.capacity() - 1]
C4_Panics ==
    N = 0 /\ last.op = "recent" /\ status = "panicked" /\ filled /\ write_at = 0

\* C4: on a zero-capacity buffer reached through new, new_with, clear and
\* clear_with, len() is 0 and recent() returns None without panicking.
C4_ZeroCapacityReads ==
    (N = 0 /\ last.op \in {"new", "new_with", "clear", "clear_with", "recent", "len", "as_slice"}) =>
        /\ len(Self) = 0
        /\ recent(Self).tag = "None"
        /\ status # "panicked"

\* C5: for N > 0, k writes after an empty state give len() = min(k, N); in
\* every state len() is N if filled and write_at otherwise, 0 <= len() <= N,
\* capacity() = N, and as_slice() has len() elements.
C5_Len ==
    N > 0 =>
        /\ from_empty => len(Self) = Min(Len(hist), N)
        /\ len(Self) = (IF filled THEN N ELSE write_at)
        /\ 0 <= len(Self) /\ len(Self) <= N
        /\ capacity = N
        /\ Len(as_slice(Self)) = len(Self)

C5_Witness ==
    /\ N >= 2 /\ from_empty /\ Len(hist) > N /\ last.op = "write"
    /\ len(Self) = N /\ status = "alive"

\* C6: for N > 0, right after write(v), or a non-empty bulk write ending in v,
\* recent() returns the element just written, on the wrapped branch (index
\* N-1) and on the other (index write_at-1).
C6_RecentAfterWrite ==
    (N > 0 /\ status = "alive" /\ last.op \in BulkOps \cup {"write"} /\ last.items # <<>>) =>
        /\ recent(Self).tag = "Some"
        /\ recent(Self).cell.live
        /\ recent(Self).cell.val = last.items[Len(last.items)]
        /\ recent(Self).cell.id = next_id - 1

\* the write that wraps the cursor for the second time
C6_Witness ==
    /\ N >= 2 /\ status = "alive" /\ last.op = "write"
    /\ write_at = 0 /\ last.pre.filled /\ Len(hist) = 2 * N
    /\ hist[Len(hist)].val # hist[Len(hist) - N].val

\* C7: for N > 0, after k writes from empty the multiset of as_slice() is the
\* multiset of the last min(k, N) values written (all k of them when k < N).
C7_LastNMultiset ==
    (N > 0 /\ from_empty /\ status = "alive") =>
        /\ \A v \in Values :
              Count(ValuesOf(as_slice(Self)), v) = Count(ValuesOf(LastN(hist, N)), v)
        /\ Range(IdsOf(as_slice(Self))) = Range(IdsOf(LastN(hist, N)))

\* two values were evicted and the retained multiset differs from the one written first
C7_Witness ==
    /\ N >= 2 /\ from_empty /\ status = "alive" /\ Len(hist) >= N + 2
    /\ \E v \in Values :
          Count(ValuesOf(LastN(hist, N)), v) # Count(ValuesOf(SubSeq(hist, 1, N)), v)

\* C8: for N > 0, a write on a filled buffer finalizes exactly one element,
\* the one in storage[write_at], and no retained element is older than it
\* (from empty: it is the element written N writes earlier); a write on a
\* non-filled buffer finalizes nothing; storage[write_at] is live exactly when
\* filled is true.
C8_EvictsOldest ==
    (N > 0 /\ status = "alive") =>
        /\ data[write_at].live <=> filled
        /\ last.op = "write" =>
              LET pre == last.pre
                  e == pre.data[pre.write_at]
                  written == Range(IdsOf(pre.hist))
              IN /\ ~pre.filled => dropped = pre.dropped
                 /\ pre.filled =>
                       /\ e.live
                       /\ dropped = Append(pre.dropped, e.id)
                       /\ \A c \in Cells(pre) :
                             (c.live /\ c.id # e.id) =>
                                 IF c.id \in written
                                 THEN e.id \notin written \/ e.id < c.id
                                 ELSE e.id \notin written
                       /\ pre.from_empty => e.id = pre.hist[Len(pre.hist) - N + 1].id

\* a write on a buffer filled from empty that has already wrapped once more
C8_Witness ==
    /\ N >= 2 /\ status = "alive" /\ last.op = "write"
    /\ last.pre.filled /\ last.pre.from_empty /\ Len(last.pre.hist) > N
    /\ Len(dropped) = Len(last.pre.dropped) + 1

\* ------------------------------------------------------------------ the unit tests' runs
\* tests::write and tests::as_slice: HistoryBuffer<u8, 4>, its writes and its
\* extend([..].iter()) calls, explored for every capacity up to the tests' 4
TestN == 4
FreeDepth == 2     \* runs of up to FreeDepth arbitrary test values are explored besides the tests' own

TestValues == {1, 2, 3, 4, 5, 6, 10, 11, 12}
TestWrites == <<1, 4, 5, 6, 10, 11, 12>>
TestAsSlice == <<1, 2, 3, 4, 5>>
TestSlices == {<<11, 12>>, TestAsSlice}

IsPrefix(p, q) == Len(p) <= Len(q) /\ SubSeq(q, 1, Len(p)) = p

InTestRuns(s) ==
    LET h == ValuesOf(s.hist)
    IN Len(h) <= FreeDepth \/ IsPrefix(h, TestWrites) \/ IsPrefix(h, TestAsSlice)

TestInit ==
    /\ N \in 1 .. TestN
    /\ overflow_checks \in BOOLEAN
    /\ InitWith(New(1, <<>>), "new", <<>>)

TestWrite ==
    /\ status = "alive"
    /\ \E t \in TestValues :
          /\ InTestRuns(write(Self, t))
          /\ Install(write(Self, t), "write", <<t>>, "alive")

TestExtend ==
    /\ status = "alive"
    /\ \E iter \in TestSlices :
          /\ InTestRuns(extend_ref(Self, iter))
          /\ Install(extend_ref(Self, iter), "extend_ref", iter, "alive")

TestNext ==
    \/ TestWrite
    \/ TestExtend

SpecTests == TestInit /\ [][TestNext]_vars

\* the largest m <= k with (m - 1) mod N = i: the last write that landed in slot i
LastWriteInto(i, k) == CHOOSE m \in 1 .. k : (m - 1) % N = i /\ \A j \in m + 1 .. k : (j - 1) % N # i

\* C9: for N > 0, the k-th write after an empty state lands in physical slot
\* (k-1) mod N, so after k writes as_slice()[i], i < min(k, N), is the value of
\* the last write m <= k with (m-1) mod N = i.  With capacity 4: writes 1, 4
\* give [1, 4]; then 5, 6, 10 give [10, 4, 5, 6]; then extend [11, 12] gives
\* [10, 11, 12, 6]; extend [1, 2, 3, 4, 5] from empty gives [5, 2, 3, 4].
C9_PhysicalSlots ==
    (N > 0 /\ from_empty /\ status = "alive") =>
        LET k == Len(hist)
            sl == as_slice(Self)
        IN /\ Len(sl) = Min(k, N)
           /\ \A i \in 0 .. Min(k, N) - 1 :
                 /\ sl[i + 1].live
                 /\ sl[i + 1].id = hist[LastWriteInto(i, k)].id
                 /\ sl[i + 1].val = hist[LastWriteInto(i, k)].val
           /\ k > 0 => data[(k - 1) % N].id = next_id - 1
           /\ N = 4 =>
                 /\ ValuesOf(hist) = <<1, 4>> => ValuesOf(sl) = <<1, 4>>
                 /\ ValuesOf(hist) = <<1, 4, 5, 6, 10>> => ValuesOf(sl) = <<10, 4, 5, 6>>
                 /\ ValuesOf(hist) = <<1, 4, 5, 6, 10, 11, 12>> => ValuesOf(sl) = <<10, 11, 12, 6>>
                 /\ ValuesOf(hist) = <<1, 2, 3, 4, 5>> => ValuesOf(sl) = <<5, 2, 3, 4>>

\* the end of tests::write: five writes, then extend([11, 12].iter())
C9_Witness ==
    /\ N = 4 /\ status = "alive" /\ last.op = "extend_ref" /\ last.items = <<11, 12>>
    /\ ValuesOf(hist) = TestWrites
    /\ ValuesOf(as_slice(Self)) = <<10, 11, 12, 6>>

\* one write per element of items, in input order
RECURSIVE WriteEach(_, _)
WriteEach(s, items) ==
    IF items = <<>> THEN s
    ELSE write(WriteEach(s, SubSeq(items, 1, Len(items) - 1)), items[Len(items)])

\* C10: for N > 0, extend_from_slice(items), Extend<T>::extend(items) and
\* Extend<&T>::extend(items) each leave exactly the state (cells, write_at,
\* filled, finalized elements) that one write per element of items in input
\* order leaves; with no items the state is unchanged.
C10_BulkIsRepeatedWrite ==
    (N > 0 /\ last.op \in BulkOps) =>
        /\ Self = WriteEach(last.pre, last.items)
        /\ last.items = <<>> => Self = last.pre

\* a bulk write of two different values that wraps the cursor of a filled buffer
C10_Witness ==
    /\ N >= 2 /\ status = "alive" /\ last.op = "extend_from_slice"
    /\ Len(last.items) = 2 /\ last.items[1] # last.items[2]
    /\ last.pre.filled /\ last.pre.write_at = N - 1 /\ write_at = 1

\* ------------------------------------------------------------------ long bulk writes
\* extend_from_slice with slices longer than the buffer, from the states a few
\* writes and clears lead to
MaxLong == 3       \* longest slice handed to extend_from_slice here
MaxPrior == 3      \* element objects constructed before the last long bulk write

LongSlices == SeqsUpTo(MaxLong)

\* a write that builds the state the long bulk write starts from
DoPriorWrite ==
    /\ status = "alive"
    /\ next_id <= MaxPrior
    /\ \E t \in Values : Install(write(Self, t), "write", <<t>>, "alive")

DoExtendFromLongSlice ==
    /\ status = "alive"
    /\ next_id <= MaxPrior + 1
    /\ \E other \in LongSlices :
          Install(extend_from_slice(Self, other), "extend_from_slice", other, "alive")

BulkNext ==
    \/ DoPriorWrite
    \/ DoClear
    \/ DoExtendFromLongSlice

SpecBulk == Init /\ [][BulkNext]_vars

\* C11: for N > 0, from any reachable state, a bulk write of more than N items
\* leaves the buffer filled with, as a multiset, exactly the last N items;
\* every element held before and every earlier item has been finalized.
C11_LongBulkKeepsLastN ==
    (N > 0 /\ status = "alive" /\ last.op \in BulkOps /\ Len(last.items) > N) =>
        /\ filled /\ len(Self) = N
        /\ \A v \in Values :
              Count(ValuesOf(as_slice(Self)), v) = Count(LastN(last.items, N), v)
        /\ Range(IdsOf(as_slice(Self))) = (next_id - N) .. (next_id - 1)
        /\ LiveIds(last.pre) \subseteq Range(dropped)
        /\ LiveIds(Self) \cap LiveIds(last.pre) = {}
        /\ Range(dropped) = 1 .. (next_id - N - 1)

\* three items into a filled buffer of capacity two in mid-lap; the first item is not kept
C11_Witness ==
    /\ N = 2 /\ status = "alive" /\ last.op = "extend_from_slice" /\ Len(last.items) = 3
    /\ last.pre.filled /\ last.pre.write_at = 1
    /\ last.items[1] # last.items[2] /\ last.items[2] = last.items[3]
    /\ last.pre.data[0].val = last.items[1]

\* what the public reads can tell of a buffer: cells' liveness and values, cursor, flag
Physical(s) ==
    [cells |-> [i \in DOMAIN s.data |->
                   IF s.data[i].live THEN [live |-> TRUE, val |-> s.data[i].val]
                   ELSE [live |-> FALSE, val |-> 0]],
     write_at |-> s.write_at, filled |-> s.filled,
     len |-> len(s), recent |-> [tag |-> recent(s).tag, val |-> recent(s).cell.val]]

\* a freshly constructed new() buffer given the writes vals
FreshRun(vals) == extend(New(1, <<>>), vals)

C13_FilledWithValue ==
    (N > 0 /\ status = "alive") =>
        /\ last.op \in {"new_with", "clear_with"} =>
              /\ filled /\ write_at = 0 /\ len(Self) = N
              /\ Len(as_slice(Self)) = N
              /\ \A k \in DOMAIN as_slice(Self) :
                    as_slice(Self)[k].live /\ as_slice(Self)[k].val = last.items[1]
        /\ (last.op = "write" /\ ~last.pre.from_empty /\ last.pre.hist = <<>>) =>
              /\ data[0].live /\ data[0].val = last.items[1]
              /\ \A i \in 1 .. N - 1 :
                    /\ data[i] = last.pre.data[i]
                    /\ data[i].live /\ data[i].val = last.pre.data[0].val
              /\ write_at = 1 % N /\ filled

\* clear_with(v) on a used buffer, then a write of another value
C13_Witness ==
    /\ N >= 2 /\ status = "alive" /\ last.op = "write"
    /\ ~last.pre.from_empty /\ last.pre.hist = <<>> /\ Len(last.pre.dropped) > 0
    /\ last.items[1] # last.pre.data[0].val /\ data[1].val = last.pre.data[0].val

C15_CursorInRange ==
    N > 0 =>
        /\ 0 <= write_at /\ write_at < N
        /\ write_at < 2 ^ USIZE_BITS
        /\ status # "panicked"
        /\ recent(Self).tag # "Panic"
        /\ last.op = "write" =>
              /\ last.pre.write_at < N
              /\ write_at = (IF last.pre.write_at + 1 = N THEN 0 ELSE last.pre.write_at + 1)
        /\ (write_at = 0 /\ filled) => (SubUsize(capacity, 1).ok /\ SubUsize(capacity, 1).v = N - 1)
        /\ write_at > 0 => (SubUsize(write_at, 1).ok /\ SubUsize(write_at, 1).v < N)

\* recent() called right after the write that wrapped the cursor a second time
C15_Witness ==
    /\ N >= 2 /\ status = "alive" /\ last.op = "recent"
    /\ write_at = 0 /\ filled /\ Len(hist) = 2 * N

\* C16: for N > 0, from empty, filled becomes true at the N-th write and not
\* before, together with write_at returning to 0; once filled, every write and
\* bulk write keeps filled = true and len() = N while the cursor cycles, and
\* only clear() takes the buffer back to not filled.
C16_FilledAbsorbing ==
    N > 0 =>
        /\ from_empty => (filled <=> Len(hist) >= N)
        /\ (from_empty /\ Len(hist) = N /\ last.op = "write") =>
              (~last.pre.filled /\ filled /\ write_at = 0)
        /\ (last.op \in BulkOps \cup {"write"} /\ last.pre.filled) =>
              /\ filled /\ len(Self) = N
              /\ write_at = (last.pre.write_at + Len(last.items)) % N
        /\ (last.pre.filled /\ ~filled) => last.op = "clear"
        /\ (~last.pre.filled /\ filled) =>
              \/ last.op = "clear_with"
              \/ /\ last.op \in BulkOps \cup {"write"}
                 /\ last.pre.write_at + Len(last.items) >= N

\* the N-th write after clear() fills the buffer
C16_Witness ==
    /\ N >= 2 /\ status = "alive" /\ last.op = "write" /\ from_empty
    /\ Len(hist) = N /\ ~last.pre.filled /\ filled /\ write_at = 0
    /\ Len(dropped) > 0

\* C17: for N > 0, write(v) changes the cell at the cursor and no other cell
\* (besides write_at and possibly filled); len(), capacity(), recent() and
\* as_slice() change nothing.
C17_Frame ==
    (N > 0 /\ status = "alive") =>
        /\ last.op = "write" =>
              /\ \A i \in 0 .. N - 1 :
                    i # last.pre.write_at => data[i] = last.pre.data[i]
              /\ data[last.pre.write_at] = MaybeUninitNew(last.pre.next_id, last.items[1])
        /\ last.op \in ReadOps => Self = last.pre

\* a write into the middle slot of a filled buffer
C17_Witness ==
    /\ N >= 3 /\ status = "alive" /\ last.op = "write"
    /\ last.pre.filled /\ last.pre.write_at = 1
    /\ last.items[1] # last.pre.data[1].val

\* C18: for N > 0, recent() is None exactly when len() = 0 (write_at = 0 and
\* not filled); otherwise it is an element of as_slice(); on a buffer made by
\* new_with(v) or clear_with(v) and not yet written to it is Some(v), read
\* from slot N-1.
C18_RecentNoneIffEmpty ==
    (N > 0 /\ status = "alive") =>
        /\ (recent(Self).tag = "None") <=> (len(Self) = 0)
        /\ (len(Self) = 0) <=> (write_at = 0 /\ ~filled)
        /\ recent(Self).tag # "None" =>
              /\ recent(Self).tag = "Some"
              /\ recent(Self).cell.live
              /\ \E k \in DOMAIN as_slice(Self) : as_slice(Self)[k] = recent(Self).cell
        /\ (~from_empty /\ hist = <<>>) =>
              /\ recent(Self).tag = "Some"
              /\ recent(Self).cell = data[N - 1]
              /\ recent(Self).cell.val = data[0].val
        /\ last.op \in {"new_with", "clear_with"} =>
              recent(Self).cell.val = last.items[1]

\* recent() called on the result of clear_with(v), before any write
C18_Witness ==
    /\ N >= 2 /\ status = "alive" /\ last.op = "recent"
    /\ ~from_empty /\ hist = <<>> /\ Len(dropped) > 0
    /\ recent(Self).tag = "Some" /\ recent(Self).cell.id = next_id - 1

\* the cells read from the cursor on when filled, as they lie otherwise
Chrono(s) ==
    LET sl == as_slice(s)
    IN IF s.filled
       THEN SubSeq(sl, s.write_at + 1, Len(sl)) \o SubSeq(sl, 1, s.write_at)
       ELSE sl

\* a FIFO of at most N elements: push at the back, the front falls off when full
FifoPush(q, x) == IF Len(q) < N THEN Append(q, x) ELSE Append(Tail(q), x)

Elems(q) == [i \in DOMAIN q |-> [id |-> q[i].id, val |-> q[i].val]]

\* C19: for N > 0, a buffer reached from empty by k writes refines a FIFO of
\* the last N values: its cells read from write_at on when filled (as_slice()
\* as is when not) are the retained elements oldest to newest, each write is a
\* push on that FIFO, and the last of them is recent().
C19_RefinesFifo ==
    (N > 0 /\ status = "alive" /\ from_empty) =>
        /\ Elems(Chrono(Self)) = LastN(hist, N)
        /\ \A k \in DOMAIN Chrono(Self) : Chrono(Self)[k].live
        /\ hist # <<>> =>
              /\ recent(Self).tag = "Some"
              /\ recent(Self).cell = Chrono(Self)[Len(Chrono(Self))]
        /\ (last.op = "write" /\ last.pre.from_empty) =>
              Elems(Chrono(Self)) =
                  FifoPush(Elems(Chrono(last.pre)),
                           [id |-> last.pre.next_id, val |-> last.items[1]])

\* a filled buffer with the cursor in mid-lap: the oldest element lies after the newest
C19_Witness ==
    /\ N >= 3 /\ status = "alive" /\ from_empty /\ last.op = "write"
    /\ filled /\ write_at = 1 /\ Len(hist) = N + 1
    /\ hist[1].val # hist[2].val /\ hist[N + 1].val # hist[N].val

====
